---- MODULE Spec2Model ----
(***************************************************************************)
(* VAT entry form (streamlit_app.py): the three-field amount               *)
(* reconciliation (base / VAT / total), the validated transaction store    *)
(* and the monthly balance with carry-forward of surplus.                  *)
(*                                                                         *)
(* Units.  Text in an amount field is modelled by what Decimal(text)       *)
(* yields: nothing (empty or unparsable text), NaN, or a finite number,    *)
(* kept in thousandths (mills) so that third decimals and rounding ties    *)
(* are representable.  Amounts that went through quantize_decimal are in   *)
(* cents.  A "YYYY-MM" key is the integer YYYY*100 + MM.                   *)
(***************************************************************************)
EXTENDS Integers, Sequences, FiniteSets, TLC

\* ---------------------------------------------------------------- bounds
FirstYear == 2023
NumYears == 2
MaxTrans == 2
MaxEvents == 6
\* Largest amount, in cents, the derivations are tabulated for.
MaxCents == 200
\* Largest number of transactions in a data file found at start.
MaxStored == 2

\* ------------------------------------------------------ program constants
DEFAULT_VAT_RATE == 18
COMPANIES == <<"SOL", "HELO">>
TRANSACTION_TYPES == <<"Sales", "Imports", "Local">>
MONTH_NAMES == <<"January", "February", "March", "April", "May", "June", "July",
                 "August", "September", "October", "November", "December">>

Range(s) == {s[i] : i \in DOMAIN s}
CompanySet == Range(COMPANIES)
TypeSet == Range(TRANSACTION_TYPES)

\* ------------------------------------------------------------ input sets
Years == FirstYear .. (FirstYear + NumYears - 1)
\* Months offered to the selection events: the two ends of the year, so that
\* consecutive periods across the year rollover are selectable.
MonthChoices == {"January", "December"}
\* VAT rates (percent) the derivations are exercised with in SpecForm.
Rates == {-18, 0, 7, 18}
FocusStates == {"none", "base", "vat", "total"}

\* What Decimal(text) makes of the text of an amount field.
Empty == [k |-> "empty", v |-> 0]
NaN == [k |-> "nan", v |-> 0]
Num(m) == [k |-> "num", v |-> m]
\* Texts the user events put into an amount field: in SpecForm, and in Spec.
TypedTexts == {Empty, NaN, Num(-1000), Num(5), Num(10), Num(1000)}
LedgerTexts == {NaN, Num(10), Num(-1000)}
\* Transaction types offered to the selection events of Spec.
TypeChoices == {"Sales", "Imports"}
\* Texts the user events put into the counterparty field.
CounterpartyTexts == {"ACME"}

\* ------------------------------------------------------- helper functions
\* Mutant: ties go to the even neighbour (banker's rounding).
RoundHalfEven(n, d) ==
    LET a == IF n >= 0 THEN n ELSE -n
        q == a \div d
        r == a % d
        c == IF 2 * r < d THEN q
             ELSE IF 2 * r > d THEN q + 1
             ELSE IF q % 2 = 0 THEN q ELSE q + 1
    IN  IF n >= 0 THEN c ELSE -c

\* n/d rounded to the nearest integer, ties away from zero (ROUND_HALF_UP).
RoundHalfUp(n, d) ==
    IF n >= 0 THEN (2 * n + d) \div (2 * d)
    ELSE -((2 * (-n) + d) \div (2 * d))

\* quantize_decimal: a finite amount in mills to cents.
quantize_decimal(mills) == RoundHalfUp(mills, 10)

\* f"{x:.2f}" of a quantized amount, read back by Decimal(text).
Fmt2(cents) == Num(cents * 10)

\* MONTH_NAMES.index(month_name) + 1
MonthNum(month_name) == CHOOSE i \in DOMAIN MONTH_NAMES : MONTH_NAMES[i] = month_name

get_month_year_str(year, month_name) == year * 100 + MonthNum(month_name)

\* Mutant: the year is not stepped back in January.
get_prev_month_year_str_SameYear(year, month_name) ==
    IF MonthNum(month_name) = 1 THEN year * 100 + 12
    ELSE year * 100 + MonthNum(month_name) - 1

\* Mutant: January steps back to a month 00 of the same year.
get_prev_month_year_str_MonthZero(year, month_name) ==
    year * 100 + MonthNum(month_name) - 1

\* The first day of the month less one day, as '%Y-%m'.
get_prev_month_year_str(year, month_name) ==
    IF MonthNum(month_name) = 1 THEN (year - 1) * 100 + 12
    ELSE year * 100 + MonthNum(month_name) - 1

\* ------------------------------------------------------------------ state
VARIABLES
    vat_rate,              \* self.vat_rate, in percent
    calculating,           \* self._calculating
    editing_id,            \* self.editing_id; 0 is None
    transactions,          \* self.transactions
    carry_forward_data,    \* self.carry_forward_data: company -> (period -> surplus)
    company_var, year_var, month_var, transaction_type_var,
    v_me_tvsh_var,         \* total amount field
    v_pa_tvsh_var,         \* base amount field
    tvsh_var,              \* VAT amount field
    live_labels,           \* the LIVE DATA labels: what the last recalculation displayed
    focus,                 \* the widget holding the input focus at the last field edit
    msg,                   \* outcome of the last event (the message box it showed)
    clock,                 \* datetime.now() as a tick count, the next id: each add
                           \* reads a later time than every earlier add
    events,                \* number of UI events handled so far
    counterparty_var,      \* counterparty field
    known_counterparties,  \* self.known_counterparties
    data_file,             \* the content of DATA_FILE on disk
    running                \* root.mainloop() is running (the window is not destroyed)

vars == <<vat_rate, calculating, editing_id, transactions, carry_forward_data,
          company_var, year_var, month_var, transaction_type_var,
          v_me_tvsh_var, v_pa_tvsh_var, tvsh_var, live_labels, focus, msg,
          clock, events, counterparty_var, known_counterparties, data_file, running>>

\* The part of self the calculation callbacks read and write.  runs counts
\* the derivations that got past the guard since the record was taken, and
\* deepest is the deepest callback nesting at which one did.
SelfAt(focus_get) ==
    [v_pa_tvsh_var |-> v_pa_tvsh_var, tvsh_var |-> tvsh_var,
     v_me_tvsh_var |-> v_me_tvsh_var, calculating |-> calculating,
     vat_rate |-> vat_rate, focus |-> focus_get, runs |-> 0, deepest |-> 0]

\* ------------------------------------------------------ calculation logic
\* The write-trace callbacks registered on the three amount variables call
\* each other through the writes they make; depth counts the nesting.
MaxDepth == 3

RECURSIVE trace_callback(_, _, _)

\* StringVar.set(value): the write, then the variable's write trace.
SetVar(self, name, value, depth) ==
    trace_callback([self EXCEPT ![name] = value], name, depth)

_set_calculation_flag(self, state) == [self EXCEPT !.calculating = state]

\* A derivation got past its guard at callback nesting depth.
Entered(self, depth) ==
    [self EXCEPT !.runs = @ + 1,
                 !.deepest = IF depth > @ THEN depth ELSE @]

\* The arithmetic of the three derivations; amounts read from a field are in
\* mills, results are quantized, in cents; rate is in percent.
\* Mutant: the product is cut to cents instead of rounded.
VatFromBase_Truncates(base, rate) == (base * rate) \div 1000

\* quantize_decimal(base * self.vat_rate)
VatFromBase(base, rate) == RoundHalfUp(base * rate, 1000)

\* quantize_decimal(base + vat)
TotalOf(base, vat) == quantize_decimal(base + vat)

\* Mutant: the VAT is multiplied by the rate instead of divided.
BaseFromVat_Multiplies(vat, rate) == RoundHalfUp(vat * rate, 1000)

\* quantize_decimal(vat / self.vat_rate)
BaseFromVat(vat, rate) == RoundHalfUp(vat * 10, rate)

\* quantize_decimal(total / denominator), denominator = 1 + self.vat_rate
BaseFromTotal(total, denominator) == RoundHalfUp(total * 10, denominator)

\* Mutant: the VAT is base * rate instead of the residual.
VatFromTotal_ByRate(total, base) == RoundHalfUp(base * DEFAULT_VAT_RATE, 1000)

\* quantize_decimal(total - base)
VatFromTotal(total, base) == quantize_decimal(total - base)

_calculate_from_base(self, depth) ==
    IF self.calculating THEN self
    ELSE LET s0 == _set_calculation_flag(Entered(self, depth), TRUE)
             base == s0.v_pa_tvsh_var
         IN  IF base.k = "nan" THEN s0      \* base >= 0 raises InvalidOperation
             ELSE IF base.k = "num" /\ base.v >= 0 THEN
                 LET vat == VatFromBase(base.v, s0.vat_rate)
                     total == TotalOf(base.v, vat * 10)
                     s1 == SetVar(s0, "tvsh_var", Fmt2(vat), depth)
                     s2 == SetVar(s1, "v_me_tvsh_var", Fmt2(total), depth)
                 IN  _set_calculation_flag(s2, FALSE)
             ELSE IF s0.focus = "none" THEN
                 LET s1 == SetVar(s0, "tvsh_var", Empty, depth)
                     s2 == SetVar(s1, "v_me_tvsh_var", Empty, depth)
                 IN  _set_calculation_flag(s2, FALSE)
             ELSE _set_calculation_flag(s0, FALSE)

_calculate_from_vat(self, depth) ==
    IF self.calculating THEN self
    ELSE LET s0 == _set_calculation_flag(Entered(self, depth), TRUE)
             vat == s0.tvsh_var
         IN  IF vat.k = "nan" THEN s0       \* vat >= 0 raises InvalidOperation
             ELSE IF vat.k = "num" /\ vat.v >= 0 /\ s0.vat_rate > 0 THEN
                 LET base == BaseFromVat(vat.v, s0.vat_rate)
                     total == TotalOf(base * 10, vat.v)
                     s1 == SetVar(s0, "v_pa_tvsh_var", Fmt2(base), depth)
                     s2 == SetVar(s1, "v_me_tvsh_var", Fmt2(total), depth)
                 IN  _set_calculation_flag(s2, FALSE)
             ELSE IF s0.focus = "none" THEN
                 LET s1 == SetVar(s0, "v_pa_tvsh_var", Empty, depth)
                     s2 == SetVar(s1, "v_me_tvsh_var", Empty, depth)
                 IN  _set_calculation_flag(s2, FALSE)
             ELSE _set_calculation_flag(s0, FALSE)

_calculate_from_total(self, depth) ==
    IF self.calculating THEN self
    ELSE LET s0 == _set_calculation_flag(Entered(self, depth), TRUE)
             total == s0.v_me_tvsh_var
             denominator == 100 + s0.vat_rate
         IN  IF total.k = "nan" THEN s0     \* total >= 0 raises InvalidOperation
             ELSE IF total.k = "num" /\ total.v >= 0 /\ denominator > 0 THEN
                 LET base == BaseFromTotal(total.v, denominator)
                     vat == VatFromTotal(total.v, base * 10)
                     s1 == SetVar(s0, "v_pa_tvsh_var", Fmt2(base), depth)
                     s2 == SetVar(s1, "tvsh_var", Fmt2(vat), depth)
                 IN  _set_calculation_flag(s2, FALSE)
             ELSE IF s0.focus = "none" THEN
                 LET s1 == SetVar(s0, "v_pa_tvsh_var", Empty, depth)
                     s2 == SetVar(s1, "tvsh_var", Empty, depth)
                 IN  _set_calculation_flag(s2, FALSE)
             ELSE _set_calculation_flag(s0, FALSE)

\* trace_add("write", ...) on the three amount variables.  A callback nested
\* deeper than MaxDepth is cut off (the interpreter's recursion limit).
trace_callback(self, name, depth) ==
    IF depth >= MaxDepth THEN self
    ELSE CASE name = "v_pa_tvsh_var" -> _calculate_from_base(self, depth + 1)
           [] name = "tvsh_var" -> _calculate_from_vat(self, depth + 1)
           [] name = "v_me_tvsh_var" -> _calculate_from_total(self, depth + 1)

\* ---------------------------------------------------------- validation
\* _safely_get_decimal returns None for empty or unparsable text.
IsNone(x) == x.k = "empty"

\* Mutant: the sign of the amounts is not tested.
_validate_inputs_NoSignTest(base, vat, total) ==
    LET rejected(why) == [status |-> why, base |-> 0, vat |-> 0, total |-> 0]
    IN  IF IsNone(base) \/ IsNone(vat) \/ IsNone(total) THEN rejected("IncompleteInput")
        ELSE IF base.k = "nan" \/ vat.k = "nan" \/ total.k = "nan"
        THEN rejected("InvalidOperation")
        ELSE LET diff == base.v + vat.v - total.v
             IN  IF diff > 10 \/ diff < -10 THEN rejected("InconsistentAmounts")
                 ELSE [status |-> "ok", base |-> quantize_decimal(base.v),
                       vat |-> quantize_decimal(vat.v),
                       total |-> quantize_decimal(total.v)]

\* _validate_inputs: the outcome and, when valid, the three amounts in cents.
\* "InvalidOperation" is the exception an ordering comparison with NaN raises.
_validate_inputs(base, vat, total) ==
    LET rejected(why) == [status |-> why, base |-> 0, vat |-> 0, total |-> 0]
    IN  IF IsNone(base) /\ IsNone(vat) /\ IsNone(total) THEN rejected("IncompleteInput")
        ELSE IF IsNone(base) \/ IsNone(vat) \/ IsNone(total) THEN rejected("IncompleteInput")
        ELSE IF base.k = "nan" THEN rejected("InvalidOperation")
        ELSE IF base.v < 0 THEN rejected("NegativeAmount")
        ELSE IF vat.k = "nan" THEN rejected("InvalidOperation")
        ELSE IF vat.v < 0 THEN rejected("NegativeAmount")
        ELSE IF total.k = "nan" THEN rejected("InvalidOperation")
        ELSE IF total.v < 0 THEN rejected("NegativeAmount")
        ELSE LET diff == base.v + vat.v - total.v
                 abs == IF diff < 0 THEN -diff ELSE diff
             IN  IF abs > 10 THEN rejected("InconsistentAmounts")
                 ELSE [status |-> "ok", base |-> quantize_decimal(base.v),
                       vat |-> quantize_decimal(vat.v),
                       total |-> quantize_decimal(total.v)]

\* ---------------------------------------------------------------- ledger
NoEntries == [p \in {} |-> 0]

\* dict.get(key, default)
Get(d, key, default) == IF key \in DOMAIN d THEN d[key] ELSE default

\* d[key] = value
Put(d, key, value) == [p \in DOMAIN d \cup {key} |-> IF p = key THEN value ELSE d[p]]

\* del d[key]
Del(d, key) == [p \in DOMAIN d \ {key} |-> d[p]]

\* Mutant: the company of the transaction is not compared.
Counted_AnyCompany(t, current_month_year, comp, t_type) ==
    /\ t.month_year = current_month_year
    /\ t.transaction_type = t_type
    /\ comp \in CompanySet /\ t_type \in TypeSet

\* Mutant: a transaction of an unknown type is counted as Sales.
Counted_UnknownAsSales(t, current_month_year, comp, t_type) ==
    /\ t.month_year = current_month_year
    /\ t.company = comp
    /\ \/ t.transaction_type = t_type
       \/ t.transaction_type \notin TypeSet /\ t_type = "Sales"
    /\ comp \in CompanySet /\ t_type \in TypeSet

\* The conditions under which the loop adds a transaction to
\* monthly_totals[comp][t_type].
Counted(t, current_month_year, comp, t_type) ==
    /\ t.month_year = current_month_year
    /\ t.company = comp /\ t.transaction_type = t_type
    /\ comp \in CompanySet /\ t_type \in TypeSet

\* current_balance = prev_surplus_carried_forward + current_month_net_vat
CurrentBalance(prev_surplus, sales_vat, imports_vat, local_vat) ==
    prev_surplus + (sales_vat - imports_vat - local_vat)

\* Mutant: a zero balance is stored too.
UpdateCarryForward_KeepsZero(months, current_month_year, current_balance) ==
    IF current_balance <= 0
    THEN Put(months, current_month_year, quantize_decimal(current_balance * 10))
    ELSE IF current_month_year \in DOMAIN months
         THEN Del(months, current_month_year)
         ELSE months

\* Mutant: the surplus is added to the stored one instead of replacing it.
UpdateCarryForward_Accumulates(months, current_month_year, current_balance) ==
    IF current_balance < 0
    THEN Put(months, current_month_year,
             Get(months, current_month_year, 0) + quantize_decimal(current_balance * 10))
    ELSE IF current_month_year \in DOMAIN months
         THEN Del(months, current_month_year)
         ELSE months

\* The carry-forward dictionary of one company after its balance is known.
UpdateCarryForward(months, current_month_year, current_balance) ==
    IF current_balance < 0
    THEN Put(months, current_month_year, quantize_decimal(current_balance * 10))
    ELSE IF current_month_year \in DOMAIN months
         THEN Del(months, current_month_year)
         ELSE months

\* The loop over self.transactions that fills monthly_totals[comp][t_type][col],
\* taken over the first n transactions.
RECURSIVE monthly_totals(_, _, _, _, _, _)
monthly_totals(trans, n, current_month_year, comp, t_type, col) ==
    IF n = 0 THEN 0
    ELSE LET t == trans[n]
             rest == monthly_totals(trans, n - 1, current_month_year, comp, t_type, col)
         IN  IF Counted(t, current_month_year, comp, t_type)
             THEN rest + quantize_decimal(Get(t, col, 0) * 10)
             ELSE rest

\* One pass of the company loop of _update_live_data_display: the labels of
\* one company and its carry-forward dictionary afterwards.
CompanyPass(trans, months, company, year, month_name) ==
    LET current_month_year == get_month_year_str(year, month_name)
        prev_month_year == get_prev_month_year_str(year, month_name)
        total_of(t_type, col) ==
            monthly_totals(trans, Len(trans), current_month_year, company, t_type, col)
        sales_vat == total_of("Sales", "vat")
        imports_vat == total_of("Imports", "vat")
        local_vat == total_of("Local", "vat")
        prev_surplus_carried_forward == Get(months, prev_month_year, 0)
        current_balance == CurrentBalance(prev_surplus_carried_forward,
                                          sales_vat, imports_vat, local_vat)
    IN  [labels |->
            [types |-> [t_type \in TypeSet |->
                          [v_me_tvsh |-> total_of(t_type, "total"),
                           v_pa_tvsh |-> total_of(t_type, "base"),
                           tvsh |-> total_of(t_type, "vat")]],
             prev_surplus |-> prev_surplus_carried_forward,
             balance |-> current_balance],
         months |-> UpdateCarryForward(months, current_month_year, current_balance)]

\* _update_live_data_display: every company of COMPANIES is recalculated for
\* the selected year and month (the selected company is read but not used).
_update_live_data_display(trans, carry, year, month_name) ==
    LET pass(company) ==
            CompanyPass(trans, Get(carry, company, NoEntries), company, year, month_name)
    IN  [carry |-> [company \in DOMAIN carry \cup CompanySet |->
                      IF company \in CompanySet THEN pass(company).months
                      ELSE carry[company]],
         labels |-> [company \in CompanySet |-> pass(company).labels]]

\* ----------------------------------------------------------------- form
\* _clear_entry_fields, on the amount variables.
_clear_entry_fields(self) ==
    LET s0 == _set_calculation_flag(self, TRUE)
        s1 == SetVar(s0, "v_me_tvsh_var", Empty, 0)
        s2 == SetVar(s1, "v_pa_tvsh_var", Empty, 0)
        s3 == SetVar(s2, "tvsh_var", Empty, 0)
    IN  _set_calculation_flag(s3, FALSE)

\* The amount variables and the flag take the values of self.
SetForm(self) ==
    /\ v_pa_tvsh_var' = self.v_pa_tvsh_var
    /\ tvsh_var' = self.tvsh_var
    /\ v_me_tvsh_var' = self.v_me_tvsh_var
    /\ calculating' = self.calculating

Ids(trans) == {trans[i].id : i \in DOMAIN trans}

\* ------------------------------------------------------------ persistence
\* os.path.exists(DATA_FILE) is false.
NoFile == [exists |-> FALSE]

\* An entry of the stored "transactions" list is a JSON object; every object
\* of the list has an id, and NotADict stands for a string, a number or null.
IsDict(t) == "id" \in DOMAIN t

NotADict == [scalar |-> 0]

\* str(surplus): the text json.dump writes for a carry-forward amount.
str(surplus) == [k |-> "num", v |-> surplus]

\* A text Decimal() raises on.
Unparsable == [k |-> "bad", v |-> 0]

\* Decimal(surplus_str) returns.
Parses(surplus_str) == surplus_str.k = "num"

\* str.strip() of the counterparty text; the texts are a name without
\* surrounding blanks, the empty text or a blank.
Strip(text) == IF text = " " THEN "" ELSE text

\* Mutant: the carry-forward store is written as it was before the handler's
\* recalculation.
_save_data_BeforeRecalculation(trans, carry, known) ==
    [exists |-> TRUE,
     transactions |-> trans,
     carry_forward |-> [comp \in {c \in DOMAIN carry_forward_data :
                                     DOMAIN carry_forward_data[c] # {}} |->
                          [my \in DOMAIN carry_forward_data[comp] |->
                             str(carry_forward_data[comp][my])]],
     counterparties |-> known]

\* _save_data: the snapshot json.dump writes.  A company without entries is
\* left out of "carry_forward"; the amounts of the entries are written with
\* str(); "counterparties" is the sorted list of the set, kept here as the
\* set.
_save_data(trans, carry, known) ==
    [exists |-> TRUE,
     transactions |-> trans,
     carry_forward |-> [comp \in {c \in DOMAIN carry : DOMAIN carry[c] # {}} |->
                          [my \in DOMAIN carry[comp] |-> str(carry[comp][my])]],
     counterparties |-> known]

\* Mutant: a carry-forward value Decimal() raises on ends the loop over the
\* values of its company, as an exception not caught per value would.
LoadMonths_StopsAtFailure(months) ==
    LET bad == {my \in DOMAIN months : ~Parses(months[my])}
    IN  [my \in {m \in DOMAIN months : \A b \in bad : m < b} |-> months[my].v]

\* The loop over the stored values of one company: each value Decimal()
\* accepts is stored, the others are reported and left out.
LoadMonths(months) ==
    [my \in {m \in DOMAIN months : Parses(months[m])} |-> months[my].v]

\* self.transactions = [t for t in loaded_transactions if isinstance(t, dict)]
LoadTransactions(loaded_transactions) == SelectSeq(loaded_transactions, IsDict)

\* _load_data: the stores taken from the file, or the empty ones without it.
_load_data(file) ==
    IF ~file.exists
    THEN [transactions |-> <<>>, carry_forward_data |-> <<>>, known_counterparties |-> {}]
    ELSE [transactions |-> LoadTransactions(file.transactions),
          carry_forward_data |->
              [comp \in {c \in DOMAIN file.carry_forward :
                             \E my \in DOMAIN file.carry_forward[c] :
                                 Parses(file.carry_forward[c][my])} |->
                 LoadMonths(file.carry_forward[comp])],
          known_counterparties |-> file.counterparties]

\* ------------------------------------------------------------------ Init
\* The state __init__ leaves with file on disk: the stores loaded from it, the
\* form's defaults, today's year and month, and one recalculation done.  The
\* clock is past every stored id.
InitFrom(rate, file) ==
    /\ vat_rate = rate
    /\ calculating = FALSE
    /\ editing_id = 0
    /\ data_file = file
    /\ transactions = _load_data(file).transactions
    /\ known_counterparties = _load_data(file).known_counterparties
    /\ company_var = COMPANIES[1]
    /\ year_var \in Years
    /\ month_var \in MonthChoices
    /\ transaction_type_var = TRANSACTION_TYPES[1]
    /\ counterparty_var = ""
    /\ v_me_tvsh_var = Empty /\ v_pa_tvsh_var = Empty /\ tvsh_var = Empty
    /\ LET r == _update_live_data_display(transactions,
                                          _load_data(file).carry_forward_data,
                                          year_var, month_var)
       IN  carry_forward_data = r.carry /\ live_labels = r.labels
    /\ focus = "none"
    /\ msg = ""
    /\ clock = 1 + (CHOOSE m \in Ids(transactions) \cup {0} :
                        \A id \in Ids(transactions) : id <= m)
    /\ events = 0
    /\ running = TRUE

\* The state __init__ leaves when no data file exists.
InitWith(rate) == InitFrom(rate, NoFile)

Init == InitWith(DEFAULT_VAT_RATE)

\* --------------------------------------------------------------- actions
\* One more UI event is handled, within the bound on their number.
Handled == running /\ events < MaxEvents /\ events' = events + 1

\* The user puts text into an amount field while focus_get() is f; the
\* variable's write trace runs.
EditField(name, text, f) ==
    LET self == SetVar(SelfAt(f), name, text, 0)
    IN  /\ SetForm(self)
        /\ focus' = f
        /\ msg' = IF self.calculating /\ ~calculating THEN "InvalidOperation" ELSE ""
        /\ UNCHANGED <<vat_rate, editing_id, transactions, carry_forward_data,
                       company_var, year_var, month_var, transaction_type_var,
                       live_labels, clock, counterparty_var, known_counterparties,
                       data_file, running>>

EditBase ==
    \E text \in LedgerTexts :
        Handled /\ EditField("v_pa_tvsh_var", text, "base")

EditVat ==
    \E text \in LedgerTexts :
        Handled /\ EditField("tvsh_var", text, "vat")

EditTotal ==
    \E text \in LedgerTexts :
        Handled /\ EditField("v_me_tvsh_var", text, "total")

\* Mutant: the update loop's flag is set whether or not the id was met.
Found_Always(trans, id) == TRUE

\* The flag found of the update loop: some transaction has the edited id.
Found(trans, id) == id \in Ids(trans)

\* Mutant: the replacing entry takes a fresh id.
ReplaceFirst_FreshId(trans, id, entry_data) ==
    LET first == {j \in DOMAIN trans :
                     trans[j].id = id /\ \A h \in 1 .. (j - 1) : trans[h].id # id}
    IN  [j \in DOMAIN trans |-> IF j \in first THEN entry_data ELSE trans[j]]

\* self.transactions after the update loop: the first transaction with the
\* edited id is replaced in place, under its id; without one the list is as
\* it was.
ReplaceFirst(trans, id, entry_data) ==
    LET first == {j \in DOMAIN trans :
                     trans[j].id = id /\ \A h \in 1 .. (j - 1) : trans[h].id # id}
    IN  [j \in DOMAIN trans |->
            IF j \in first THEN [entry_data EXCEPT !.id = id] ELSE trans[j]]

\* _add_or_update_entry (the Done / Update Entry button).
AddOrUpdateEntry ==
    LET v == _validate_inputs(v_pa_tvsh_var, tvsh_var, v_me_tvsh_var)
        counterparty_name == Strip(counterparty_var)
        entry_data == [id |-> clock,
                       company |-> company_var,
                       month_year |-> get_month_year_str(year_var, month_var),
                       transaction_type |-> transaction_type_var,
                       counterparty |-> counterparty_name,
                       base |-> v.base, vat |-> v.vat, total |-> v.total]
        known == IF counterparty_name # ""
                 THEN known_counterparties \cup {counterparty_name}
                 ELSE known_counterparties
        found == Found(transactions, editing_id)
        stored == IF editing_id # 0
                  THEN ReplaceFirst(transactions, editing_id, entry_data)
                  ELSE Append(transactions, entry_data)
        r == _update_live_data_display(stored, carry_forward_data, year_var, month_var)
    IN  /\ Handled
        /\ IF v.status # "ok" THEN
               /\ msg' = v.status
               /\ UNCHANGED <<editing_id, transactions, carry_forward_data, live_labels,
                              clock, v_me_tvsh_var, v_pa_tvsh_var, tvsh_var, calculating,
                              counterparty_var, known_counterparties, data_file>>
           ELSE IF editing_id # 0 /\ ~found THEN
               /\ msg' = "RecordNotFound"
               /\ UNCHANGED <<editing_id, transactions, carry_forward_data, live_labels,
                              clock, v_me_tvsh_var, v_pa_tvsh_var, tvsh_var, calculating,
                              counterparty_var, known_counterparties, data_file>>
           ELSE
               /\ editing_id # 0 \/ Len(transactions) < MaxTrans
               /\ msg' = ""
               /\ transactions' = stored
               /\ editing_id' = 0
               /\ clock' = IF editing_id # 0 THEN clock ELSE clock + 1
               /\ carry_forward_data' = r.carry
               /\ live_labels' = r.labels
               /\ known_counterparties' = known
               /\ data_file' = _save_data(stored, r.carry, known)
               /\ SetForm(_clear_entry_fields(SelfAt(focus)))
               /\ counterparty_var' = ""
        /\ UNCHANGED <<vat_rate, company_var, year_var, month_var,
                       transaction_type_var, focus, running>>

\* _edit_entry for the first selected row of the table, whose tag is id.  The
\* writes to year_var, month_var and company_var each run the recalculation.
EditEntry ==
    \E id \in Ids(transactions) :
        LET entry_to_edit == CHOOSE t \in Range(transactions) : t.id = id
            year == entry_to_edit.month_year \div 100
            month_name == MONTH_NAMES[entry_to_edit.month_year % 100]
            r1 == _update_live_data_display(transactions, carry_forward_data,
                                            year, month_var)
            r2 == _update_live_data_display(transactions, r1.carry, year, month_name)
            r3 == _update_live_data_display(transactions, r2.carry, year, month_name)
            s0 == _set_calculation_flag(SelfAt(focus), TRUE)
            s1 == SetVar(s0, "v_me_tvsh_var", Fmt2(entry_to_edit.total), 0)
            s2 == SetVar(s1, "v_pa_tvsh_var", Fmt2(entry_to_edit.base), 0)
            s3 == SetVar(s2, "tvsh_var", Fmt2(entry_to_edit.vat), 0)
        IN  /\ Handled
            /\ editing_id' = id
            /\ year_var' = year
            /\ month_var' = month_name
            /\ company_var' = entry_to_edit.company
            /\ transaction_type_var' = entry_to_edit.transaction_type
            /\ carry_forward_data' = r3.carry
            /\ live_labels' = r3.labels
            /\ SetForm(_set_calculation_flag(s3, FALSE))
            /\ msg' = ""
            /\ counterparty_var' = entry_to_edit.counterparty
            /\ UNCHANGED <<vat_rate, transactions, focus, clock,
                           known_counterparties, data_file, running>>

\* _cancel_edit (the Cancel Edit button, shown while an entry is edited).
CancelEdit ==
    /\ editing_id # 0
    /\ Handled
    /\ editing_id' = 0
    /\ SetForm(_clear_entry_fields(SelfAt(focus)))
    /\ msg' = ""
    /\ counterparty_var' = ""
    /\ UNCHANGED <<vat_rate, transactions, carry_forward_data, company_var, year_var,
                   month_var, transaction_type_var, live_labels, focus, clock,
                   known_counterparties, data_file, running>>

\* Mutant: the list is cut at the first selected transaction.
Keep_CutsAtFirst(trans, ids_to_delete) ==
    LET hit == {i \in DOMAIN trans : trans[i].id \in ids_to_delete}
    IN  IF hit = {} THEN trans
        ELSE SubSeq(trans, 1, (CHOOSE i \in hit : \A j \in hit : i <= j) - 1)

\* The list comprehension of _delete_selected_entry.
Keep(trans, ids_to_delete) == SelectSeq(trans, LAMBDA t : t.id \notin ids_to_delete)

\* _delete_selected_entry with the rows tagged ids_to_delete selected and the
\* confirmation answered yes.
DeleteRows ==
    \E ids_to_delete \in SUBSET Ids(transactions) \ {{}} :
        LET kept == Keep(transactions, ids_to_delete)
            r == _update_live_data_display(kept, carry_forward_data, year_var, month_var)
        IN  /\ transactions' = kept
            /\ carry_forward_data' = r.carry
            /\ live_labels' = r.labels
            /\ msg' = ""
            /\ data_file' = _save_data(kept, r.carry, known_counterparties)
            /\ UNCHANGED <<vat_rate, calculating, editing_id, company_var, year_var,
                           month_var, transaction_type_var, v_me_tvsh_var,
                           v_pa_tvsh_var, tvsh_var, focus, clock, counterparty_var,
                           known_counterparties, running>>

DeleteSelectedEntry == Handled /\ DeleteRows

\* A write to company_var, year_var or month_var runs _update_live_data_display.
Reselect(company, year, month_name) ==
    LET r == _update_live_data_display(transactions, carry_forward_data, year, month_name)
    IN  /\ company_var' = company
        /\ year_var' = year
        /\ month_var' = month_name
        /\ carry_forward_data' = r.carry
        /\ live_labels' = r.labels
        /\ msg' = ""
        /\ UNCHANGED <<vat_rate, calculating, editing_id, transactions,
                       transaction_type_var, v_me_tvsh_var, v_pa_tvsh_var, tvsh_var,
                       focus, clock, counterparty_var, known_counterparties,
                       data_file, running>>

SelectCompany ==
    \E company \in CompanySet \ {company_var} :
        Handled /\ Reselect(company, year_var, month_var)

SelectYear ==
    \E year \in Years \ {year_var} :
        Handled /\ Reselect(company_var, year, month_var)

SelectMonth ==
    \E month_name \in MonthChoices \ {month_var} :
        Handled /\ Reselect(company_var, year_var, month_name)

SelectTransactionType ==
    \E t_type \in TypeChoices \ {transaction_type_var} :
        /\ Handled
        /\ transaction_type_var' = t_type
        /\ msg' = ""
        /\ UNCHANGED <<vat_rate, calculating, editing_id, transactions,
                       carry_forward_data, company_var, year_var, month_var,
                       v_me_tvsh_var, v_pa_tvsh_var, tvsh_var, live_labels, focus, clock,
                       counterparty_var, known_counterparties, data_file, running>>

\* The user puts text into the counterparty field.
TypeCounterparty ==
    \E text \in CounterpartyTexts \ {counterparty_var} :
        /\ Handled
        /\ counterparty_var' = text
        /\ msg' = ""
        /\ UNCHANGED <<vat_rate, calculating, editing_id, transactions,
                       carry_forward_data, company_var, year_var, month_var,
                       transaction_type_var, v_me_tvsh_var, v_pa_tvsh_var, tvsh_var,
                       live_labels, focus, clock, known_counterparties, data_file,
                       running>>

\* _on_closing (the window is closed): the snapshot is saved and the window
\* destroyed, which ends the main loop.
OnClosing ==
    /\ Handled
    /\ data_file' = _save_data(transactions, carry_forward_data, known_counterparties)
    /\ running' = FALSE
    /\ msg' = ""
    /\ UNCHANGED <<vat_rate, calculating, editing_id, transactions,
                   carry_forward_data, company_var, year_var, month_var,
                   transaction_type_var, v_me_tvsh_var, v_pa_tvsh_var, tvsh_var,
                   live_labels, focus, clock, counterparty_var, known_counterparties>>

\* -------------------------------------------------------- specifications
Next ==
    \/ EditBase
    \/ EditVat
    \/ EditTotal
    \/ AddOrUpdateEntry
    \/ EditEntry
    \/ CancelEdit
    \/ DeleteSelectedEntry
    \/ SelectCompany
    \/ SelectYear
    \/ SelectMonth
    \/ SelectTransactionType
    \/ TypeCounterparty
    \/ OnClosing

Spec == Init /\ [][Next]_vars

\* The form alone, under each VAT rate of Rates.
InitForm == \E rate \in Rates : InitWith(rate)

FormEditBase ==
    \E text \in TypedTexts, f \in FocusStates :
        EditField("v_pa_tvsh_var", text, f) /\ UNCHANGED events

FormEditVat ==
    \E text \in TypedTexts, f \in FocusStates :
        EditField("tvsh_var", text, f) /\ UNCHANGED events

FormEditTotal ==
    \E text \in TypedTexts, f \in FocusStates :
        EditField("v_me_tvsh_var", text, f) /\ UNCHANGED events

NextForm ==
    \/ FormEditBase
    \/ FormEditVat
    \/ FormEditTotal

SpecForm == InitForm /\ [][NextForm]_vars

\* The program started on a data file written earlier or edited by hand.
\* A stored transaction is of SOL, in December of the first year or the
\* January after it, of a known type or of a type the program does not know.
StoredTypes == {"Sales", "Imports", "Other"}
StoredPeriods == {FirstYear * 100 + 12, (FirstYear + 1) * 100 + 1}

StoredTransaction(id, month_year, t_type) ==
    [id |-> id, company |-> COMPANIES[1], month_year |-> month_year,
     transaction_type |-> t_type, counterparty |-> "",
     base |-> 100, vat |-> 18, total |-> 118]

StoredLists ==
    UNION {{[i \in 1 .. n |-> StoredTransaction(i, p[i], ty[i])] :
               p \in [1 .. n -> StoredPeriods], ty \in [1 .. n -> StoredTypes]} :
           n \in 0 .. MaxStored}

StoredCarry == {<<>>, [c \in {COMPANIES[1]} |-> [p \in {FirstYear * 100 + 12} |-> str(-18)]]}

StoredFiles ==
    {[exists |-> TRUE, transactions |-> ts, carry_forward |-> cf, counterparties |-> {}] :
        ts \in StoredLists, cf \in StoredCarry}

InitLoad == \E file \in StoredFiles : InitFrom(DEFAULT_VAT_RATE, file)

\* The selections and the delete, without a bound on their number: the
\* stores only shrink.
LoadSelectCompany ==
    \E company \in CompanySet \ {company_var} :
        running /\ Reselect(company, year_var, month_var) /\ UNCHANGED events

LoadSelectYear ==
    \E year \in Years \ {year_var} :
        running /\ Reselect(company_var, year, month_var) /\ UNCHANGED events

LoadSelectMonth ==
    \E month_name \in MonthChoices \ {month_var} :
        running /\ Reselect(company_var, year_var, month_name) /\ UNCHANGED events

LoadDelete == running /\ DeleteRows /\ UNCHANGED events

NextLoad ==
    \/ LoadSelectCompany
    \/ LoadSelectYear
    \/ LoadSelectMonth
    \/ LoadDelete

SpecLoad == InitLoad /\ [][NextLoad]_vars

\* The program started on a data file damaged by hand: an entry of the
\* "transactions" list may be no JSON object, a transaction may lack one of
\* its amounts, and a carry-forward value may be a text Decimal() raises on.
AmountKeys == {"base", "vat", "total"}

\* The transaction without the key missing; "none" leaves it whole.
Without(t, missing) == [key \in DOMAIN t \ {missing} |-> t[key]]

\* An entry is no object, or an Imports transaction of SOL in December of
\* the first year, whole or lacking one amount.
MalformedEntries ==
    {NotADict} \cup
    {Without(StoredTransaction(0, FirstYear * 100 + 12, "Imports"), missing) :
        missing \in AmountKeys \cup {"none"}}

\* The lists of damaged entries; an object's id is its place in the list.
MalformedLists ==
    UNION {{[i \in 1 .. n |-> IF IsDict(es[i]) THEN [es[i] EXCEPT !.id = i] ELSE es[i]] :
               es \in [1 .. n -> MalformedEntries]} :
           n \in 0 .. MaxStored}

MalformedCarry ==
    UNION {{[c \in {COMPANIES[1]} |-> months] :
                months \in [S -> {str(-18), Unparsable}]} :
           S \in SUBSET StoredPeriods \ {{}}}

MalformedFiles ==
    {[exists |-> TRUE, transactions |-> ts, carry_forward |-> cf, counterparties |-> {}] :
        ts \in MalformedLists, cf \in MalformedCarry}

InitMalformed == \E file \in MalformedFiles : InitFrom(DEFAULT_VAT_RATE, file)

SpecMalformed == InitMalformed /\ [][NextLoad]_vars

\* ================================================================ claims
CurrentPeriod == get_month_year_str(year_var, month_var)

\* The balance of company for the period keyed p, from the current
\* transaction list and the current carry-forward store.
BalanceOf(company, p) ==
    CompanyPass(transactions, Get(carry_forward_data, company, NoEntries), company,
                p \div 100, MONTH_NAMES[p % 100]).labels.balance

\* ---- C1: every stored transaction has non-negative base, vat and total
\* (kept in cents, so with two decimal places) and total = base + vat exactly.
C1_StoredAmountsExact ==
    \A i \in DOMAIN transactions :
        LET t == transactions[i]
        IN  t.base >= 0 /\ t.vat >= 0 /\ t.total >= 0 /\ t.total = t.base + t.vat

\* ---- C2: the carry-forward store has an entry for (company, period) only
\* if the balance of that company and period, computed from the current
\* transaction list, is negative.
C2_EntryOnlyIfNegative ==
    \A company \in DOMAIN carry_forward_data :
        \A p \in DOMAIN carry_forward_data[company] : BalanceOf(company, p) < 0

\* ---- C3: right after a recalculation for the selected period (every
\* reachable state is one), each company has an entry at that period if and
\* only if its displayed balance is negative, and the entry is that balance.
C3_EntryIffNegativeBalance ==
    \A company \in CompanySet :
        LET months == carry_forward_data[company]
            balance == live_labels[company].balance
        IN  /\ (CurrentPeriod \in DOMAIN months) <=> (balance < 0)
            /\ balance < 0 => months[CurrentPeriod] = balance

C3_Witness ==
    /\ \E company \in CompanySet :
           /\ live_labels[company].balance < 0
           /\ CurrentPeriod \in DOMAIN carry_forward_data[company]
    /\ \E company \in CompanySet :
           /\ live_labels[company].balance >= 0
           /\ live_labels[company].types["Sales"].tvsh > 0

\* ---- C4: the recalculation is idempotent: for every period, a second run
\* right after a first gives the same labels and leaves the store as the
\* first run left it; run again in a reachable state, it changes nothing.
C4_RecomputeIdempotent ==
    /\ \A year \in Years, month_name \in MonthChoices :
           LET r1 == _update_live_data_display(transactions, carry_forward_data,
                                               year, month_name)
               r2 == _update_live_data_display(transactions, r1.carry, year, month_name)
           IN  r2.carry = r1.carry /\ r2.labels = r1.labels
    /\ LET r == _update_live_data_display(transactions, carry_forward_data,
                                          year_var, month_var)
       IN  r.carry = carry_forward_data /\ r.labels = live_labels

C4_Witness ==
    /\ Len(transactions) = 2
    /\ \E company \in CompanySet :
           /\ CurrentPeriod \in DOMAIN carry_forward_data[company]
           /\ carry_forward_data[company][CurrentPeriod] < -1

\* The year and month that follow the selected ones.
NextYear == IF month_var = "December" THEN year_var + 1 ELSE year_var
NextMonth == IF month_var = "December" THEN "January"
             ELSE MONTH_NAMES[MonthNum(month_var) + 1]

\* ---- C5: after a recalculation for period P with balance b, a recalculation
\* for the month after P reads prev_surplus = b when b < 0; when b >= 0 there
\* is no entry for P and it reads prev_surplus = 0.
C5_CarryToNextMonth ==
    \A company \in CompanySet :
        LET balance == live_labels[company].balance
            next == _update_live_data_display(transactions, carry_forward_data,
                                              NextYear, NextMonth)
        IN  /\ balance < 0 => next.labels[company].prev_surplus = balance
            /\ balance >= 0 =>
                   /\ CurrentPeriod \notin DOMAIN carry_forward_data[company]
                   /\ next.labels[company].prev_surplus = 0

\* A surplus stored in December is read by the recalculation for January of
\* the next year.
C5_Witness ==
    /\ month_var = "January"
    /\ \E company \in CompanySet :
           /\ live_labels[company].prev_surplus < 0
           /\ live_labels[company].prev_surplus =
                  carry_forward_data[company][(year_var - 1) * 100 + 12]

\* Sum of column col over the transactions at the indices in S.
RECURSIVE SumOver(_, _)
SumOver(S, col) ==
    IF S = {} THEN 0
    ELSE LET i == CHOOSE j \in S : TRUE
         IN  transactions[i][col] + SumOver(S \ {i}, col)

Matching(company, t_type) ==
    {i \in DOMAIN transactions :
        /\ transactions[i].company = company
        /\ transactions[i].month_year = CurrentPeriod
        /\ transactions[i].transaction_type = t_type}

Fields == <<v_pa_tvsh_var, tvsh_var, v_me_tvsh_var>>

\* c is n/d (n >= 0, d > 0) rounded to the nearest integer, ties up.
IsRounded(n, d, c) == 2 * c * d - d <= 2 * n /\ 2 * n < 2 * c * d + d

\* The form as __init__ leaves it.
Blank ==
    /\ v_pa_tvsh_var = Empty /\ tvsh_var = Empty /\ v_me_tvsh_var = Empty
    /\ ~calculating /\ focus = "none" /\ msg = ""

\* Amounts with two decimal places a field is given in the claims below: the
\* typed ones in every state, and every amount up to MaxCents (and 100.00,
\* 118.00) in the blank form.
TwoDecimalAmounts ==
    {t.v : t \in {x \in TypedTexts : x.k = "num" /\ x.v >= 0 /\ x.v % 10 = 0}}
    \cup (IF Blank THEN {c * 10 : c \in 0 .. MaxCents} \cup {100000, 118000} ELSE {})

\* ---- C7: _validate_inputs classifies every triple in this priority:
\* IncompleteInput if one of the three is absent or not a number, else
\* NegativeAmount if one is negative, else InconsistentAmounts if
\* |base + vat - total| > 0.01, else valid with the three amounts rounded to
\* cents; (10.00, 2.00, 13.00) is inconsistent and (10.00, 2.00, 12.00) valid.
Classified(base, vat, total) ==
    LET v == _validate_inputs(base, vat, total)
        present(x) == x.k = "num"
        diff == base.v + vat.v - total.v
    IN  IF ~(present(base) /\ present(vat) /\ present(total))
        THEN v.status = "IncompleteInput"
        ELSE IF base.v < 0 \/ vat.v < 0 \/ total.v < 0 THEN v.status = "NegativeAmount"
        ELSE IF diff > 10 \/ diff < -10 THEN v.status = "InconsistentAmounts"
        ELSE /\ v.status = "ok"
             /\ IsRounded(base.v, 10, v.base)
             /\ IsRounded(vat.v, 10, v.vat)
             /\ IsRounded(total.v, 10, v.total)

C7_ValidateClassifies ==
    /\ Classified(v_pa_tvsh_var, tvsh_var, v_me_tvsh_var)
    /\ Classified(Num(10000), Num(2000), Num(13000))
    /\ Classified(Num(10000), Num(2000), Num(12000))

\* The same for the triples without a NaN.
C7_ClassifiesNumbers ==
    (\A i \in 1 .. 3 : Fields[i].k # "nan")
        => Classified(v_pa_tvsh_var, tvsh_var, v_me_tvsh_var)

\* ---- C8: with the guard released and rate > 0, a base >= 0 of two decimal
\* places put into the base field gives vat = round2(base * rate) and
\* total = round2(base + vat), so base + vat = total exactly; the base field
\* keeps its text; at 18%, 100.00 gives 18.00 and 118.00.
C8_DeriveFromBase ==
    (~calculating /\ vat_rate > 0) =>
        \A b \in TwoDecimalAmounts, f \in FocusStates :
            LET self == SetVar(SelfAt(f), "v_pa_tvsh_var", Num(b), 0)
                vat == self.tvsh_var
                total == self.v_me_tvsh_var
            IN  /\ self.v_pa_tvsh_var = Num(b) /\ ~self.calculating
                /\ vat.k = "num" /\ vat.v % 10 = 0
                /\ IsRounded(b * vat_rate, 1000, vat.v \div 10)
                /\ total.k = "num" /\ total.v % 10 = 0
                /\ IsRounded(b + vat.v, 10, total.v \div 10)
                /\ b + vat.v = total.v
                /\ (vat_rate = 18 /\ b = 100000) => (vat.v = 18000 /\ total.v = 118000)

C8_Witness ==
    /\ vat_rate = 18 /\ ~calculating /\ focus = "base"
    /\ v_pa_tvsh_var = Num(1000) /\ tvsh_var = Num(180) /\ v_me_tvsh_var = Num(1180)

\* ---- C9: with the guard released and rate > 0, a total >= 0 of two decimal
\* places put into the total field gives base = round2(total / (1 + rate))
\* and vat = total - base, both >= 0, so base + vat = total exactly; at 18%,
\* 118.00 gives 100.00 and 18.00.
C9_DeriveFromTotal ==
    (~calculating /\ vat_rate > 0) =>
        \A t \in TwoDecimalAmounts, f \in FocusStates :
            LET self == SetVar(SelfAt(f), "v_me_tvsh_var", Num(t), 0)
                base == self.v_pa_tvsh_var
                vat == self.tvsh_var
            IN  /\ self.v_me_tvsh_var = Num(t) /\ ~self.calculating
                /\ base.k = "num" /\ base.v % 10 = 0 /\ base.v >= 0
                /\ IsRounded(t * 10, 100 + vat_rate, base.v \div 10)
                /\ vat.k = "num" /\ vat.v % 10 = 0 /\ vat.v >= 0
                /\ vat.v = t - base.v
                /\ (vat_rate = 18 /\ t = 118000) => (base.v = 100000 /\ vat.v = 18000)

C9_Witness ==
    /\ vat_rate = 18 /\ ~calculating /\ focus = "total"
    /\ v_me_tvsh_var = Num(1000) /\ v_pa_tvsh_var = Num(850) /\ tvsh_var = Num(150)

\* ---- C10: with the guard released, a VAT >= 0 put into the VAT field at a
\* rate > 0 gives base = round2(vat / rate) and total = round2(base + vat);
\* at a rate <= 0, or with a VAT text that is empty, not a number or
\* negative, no derived value is written: base and total are left as they
\* were or cleared.
C10_DeriveFromVat ==
    ~calculating =>
        \A text \in TypedTexts, f \in FocusStates :
            LET self == SetVar(SelfAt(f), "tvsh_var", text, 0)
                base == self.v_pa_tvsh_var
                total == self.v_me_tvsh_var
            IN  /\ self.tvsh_var = text
                /\ IF text.k = "num" /\ text.v >= 0 /\ vat_rate > 0
                   THEN /\ base.k = "num" /\ base.v % 10 = 0
                        /\ IsRounded(text.v * 10, vat_rate, base.v \div 10)
                        /\ total.k = "num" /\ total.v % 10 = 0
                        /\ IsRounded(base.v + text.v, 10, total.v \div 10)
                        /\ ~self.calculating
                   ELSE /\ base \in {v_pa_tvsh_var, Empty}
                        /\ total \in {v_me_tvsh_var, Empty}
                        /\ (base = Empty /\ total = Empty)
                              \/ (base = v_pa_tvsh_var /\ total = v_me_tvsh_var)

C10_Witness ==
    /\ vat_rate = 18 /\ ~calculating /\ focus = "vat"
    /\ tvsh_var = Num(1000) /\ v_pa_tvsh_var = Num(5560) /\ v_me_tvsh_var = Num(6560)

\* At rate 0 a VAT put into the VAT field of the blank form derives nothing.
C10_WitnessNoRate ==
    /\ vat_rate = 0 /\ ~calculating
    /\ tvsh_var = Num(1000) /\ v_pa_tvsh_var = Empty /\ v_me_tvsh_var = Empty

\* Non-negative amounts of up to three decimal places, in mills: the typed
\* ones in every state, and every amount up to MaxCents mills (0.200), 1.005
\* and 2.675 in the blank form.
ThreeDecimalAmounts ==
    {t.v : t \in {x \in TypedTexts : x.k = "num" /\ x.v >= 0}}
    \cup (IF Blank THEN (0 .. MaxCents) \cup {1005, 2675} ELSE {})

\* ---- C11: quantize_decimal rounds every non-negative amount to cents with
\* ties going up (0.005 -> 0.01, 0.025 -> 0.03), and this rounding is the one
\* the three derivations, the values _validate_inputs returns and the ledger
\* sums come out with.
C11_RoundHalfUp ==
    /\ quantize_decimal(5) = 1 /\ quantize_decimal(25) = 3
    /\ \A m \in ThreeDecimalAmounts :
           /\ IsRounded(m, 10, quantize_decimal(m))
           /\ LET v == _validate_inputs(Num(m), Num(0), Num(m))
              IN  v.status = "ok" /\ IsRounded(m, 10, v.base) /\ IsRounded(m, 10, v.total)
           /\ LET c == quantize_decimal(m)
                  t == [StoredTransaction(1, FirstYear * 100 + 12, "Sales") EXCEPT !.vat = c]
              IN  monthly_totals(<<t>>, 1, t.month_year, t.company, "Sales", "vat") = c
    /\ (~calculating /\ vat_rate > 0) =>
           \A m \in ThreeDecimalAmounts, f \in FocusStates :
               LET b == SetVar(SelfAt(f), "v_pa_tvsh_var", Num(m), 0)
                   v == SetVar(SelfAt(f), "tvsh_var", Num(m), 0)
                   t == SetVar(SelfAt(f), "v_me_tvsh_var", Num(m), 0)
               IN  /\ IsRounded(m * vat_rate, 1000, b.tvsh_var.v \div 10)
                   /\ IsRounded(m + b.tvsh_var.v, 10, b.v_me_tvsh_var.v \div 10)
                   /\ IsRounded(m * 10, vat_rate, v.v_pa_tvsh_var.v \div 10)
                   /\ IsRounded(v.v_pa_tvsh_var.v + m, 10, v.v_me_tvsh_var.v \div 10)
                   /\ IsRounded(m * 10, 100 + vat_rate, t.v_pa_tvsh_var.v \div 10)
                   /\ m >= t.v_pa_tvsh_var.v =>
                          IsRounded(m - t.v_pa_tvsh_var.v, 10, t.tvsh_var.v \div 10)

\* A base of 0.005 was typed at 18%: the VAT is 0.00 and the total 0.005 is
\* rounded up to 0.01.
C11_Witness ==
    /\ vat_rate = 18 /\ ~calculating /\ focus = "base"
    /\ v_pa_tvsh_var = Num(5) /\ tvsh_var = Num(0) /\ v_me_tvsh_var = Num(10)

AmountVars == {"v_pa_tvsh_var", "tvsh_var", "v_me_tvsh_var"}

\* ---- C12: a user edit of an amount field runs exactly one derivation, the
\* writes of that derivation start no further one (no derivation is entered
\* at a nesting deeper than the edit's own callback), and the edited field
\* keeps the text the user typed.
C12_OneDerivationPerEdit ==
    \A name \in AmountVars, text \in TypedTexts, f \in FocusStates :
        LET self == SetVar(SelfAt(f), name, text, 0)
        IN  self.runs = 1 /\ self.deepest = 1 /\ self[name] = text

\* The same with "at most one", and exactly one while the guard is released.
C12_AtMostOneDerivation ==
    \A name \in AmountVars, text \in TypedTexts, f \in FocusStates :
        LET self == SetVar(SelfAt(f), name, text, 0)
        IN  /\ self.runs <= 1 /\ self.deepest <= 1 /\ self[name] = text
            /\ ~calculating => self.runs = 1

\* ---- C13: an update submitted with valid amounts while the edited id is no
\* longer in the transaction list is aborted with an error and mutates
\* nothing: the transaction list (nothing appended), the carry-forward store,
\* the known counterparties and the data file are as before.
C13_RecordNotFoundAborts ==
    [][(/\ AddOrUpdateEntry
        /\ _validate_inputs(v_pa_tvsh_var, tvsh_var, v_me_tvsh_var).status = "ok"
        /\ editing_id # 0 /\ editing_id \notin Ids(transactions))
       => (/\ msg' = "RecordNotFound"
           /\ transactions' = transactions
           /\ carry_forward_data' = carry_forward_data
           /\ known_counterparties' = known_counterparties
           /\ data_file' = data_file)]_vars

\* The edited transaction was deleted, a new counterparty typed and the
\* update submitted.
C13_Witness ==
    /\ msg = "RecordNotFound"
    /\ editing_id # 0 /\ editing_id \notin Ids(transactions)
    /\ counterparty_var = "ACME" /\ "ACME" \notin known_counterparties
    /\ data_file.exists /\ data_file.transactions = transactions

Unique(trans) == \A i, j \in DOMAIN trans : trans[i].id = trans[j].id => i = j

\* ---- C14: from the empty store, no two transactions ever share an id; a
\* step that keeps the length of the list (an edit) keeps the id at every
\* position; and an id once assigned is never assigned again: every id in
\* the list is below the clock, the clock never goes back, and an id that
\* enters the list is not below the clock.
C14_IdsUniqueAndStable ==
    [][/\ Unique(transactions) /\ Unique(transactions')
       /\ \A id \in Ids(transactions') : id < clock'
       /\ clock' >= clock
       /\ \A id \in Ids(transactions') \ Ids(transactions) : id >= clock
       /\ Len(transactions') = Len(transactions) =>
              \A i \in DOMAIN transactions : transactions'[i].id = transactions[i].id]_vars

\* The first transaction was deleted and another one added after it.
C14_Witness ==
    /\ Len(transactions) >= 1
    /\ 1 \notin Ids(transactions)
    /\ clock >= 3

\* The calendar month before period p, by counting months.
PreviousPeriod(p) ==
    LET n == (p \div 100) * 12 + (p % 100) - 2
    IN  (n \div 12) * 100 + (n % 12) + 1

\* ---- C15: get_prev_month_year_str gives the calendar month before (year,
\* month): (year, month - 1) after January and (year - 1, 12) for January,
\* so 2023-12 for 2024-01; and the previous surplus a recalculation shows is
\* the stored entry of the month before the period whose entry it wrote.
C15_PreviousPeriod ==
    /\ \A year \in (FirstYear - 1) .. (FirstYear + NumYears), i \in DOMAIN MONTH_NAMES :
           LET prev == get_prev_month_year_str(year, MONTH_NAMES[i])
           IN  /\ prev = PreviousPeriod(get_month_year_str(year, MONTH_NAMES[i]))
               /\ i > 1 => prev = year * 100 + (i - 1)
               /\ i = 1 => prev = (year - 1) * 100 + 12
    /\ get_prev_month_year_str(2024, "January") = 202312
    /\ \A company \in CompanySet :
           LET months == carry_forward_data[company]
           IN  /\ live_labels[company].prev_surplus = Get(months, PreviousPeriod(CurrentPeriod), 0)
               /\ live_labels[company].balance < 0 =>
                      months[CurrentPeriod] = live_labels[company].balance

\* In January a surplus of December is read and, the balance being negative
\* again, an entry is written for January.
C15_Witness ==
    /\ month_var = "January"
    /\ \E company \in CompanySet :
           /\ live_labels[company].prev_surplus < 0
           /\ live_labels[company].balance < 0
           /\ PreviousPeriod(CurrentPeriod) \in DOMAIN carry_forward_data[company]
           /\ CurrentPeriod \in DOMAIN carry_forward_data[company]

\* The transactions of a known type, in their order.
KnownTypeOnly(trans) == SelectSeq(trans, LAMBDA t : t.transaction_type \in TypeSet)

\* ---- C16: a transaction whose type is not Sales, Imports or Local is left
\* out by the recalculation without an error: for every period, the labels
\* and the carry-forward store it gives are those it gives for the list
\* without the transactions of unknown type, and so are the labels shown.
C16_UnknownTypesExcluded ==
    /\ \A year \in Years, month_name \in MonthChoices :
           _update_live_data_display(transactions, carry_forward_data, year, month_name)
             = _update_live_data_display(KnownTypeOnly(transactions), carry_forward_data,
                                         year, month_name)
    /\ live_labels = _update_live_data_display(KnownTypeOnly(transactions),
                                               carry_forward_data, year_var, month_var).labels
    /\ msg = ""

\* The selected period holds a Sales transaction and one of an unknown type;
\* only the first is in the subtotals.
C16_Witness ==
    /\ \E i, j \in DOMAIN transactions :
           /\ transactions[i].month_year = CurrentPeriod
           /\ transactions[i].transaction_type = "Sales"
           /\ transactions[j].month_year = CurrentPeriod
           /\ transactions[j].transaction_type \notin TypeSet
           /\ transactions[j].company = transactions[i].company
           /\ live_labels[transactions[i].company].types["Sales"].tvsh = transactions[i].vat
    /\ Len(transactions) = 2
    /\ company_var = COMPANIES[2]

\* The amount fields hold a triple validation has to reject: one of them is
\* empty, or all are numbers and one is negative or they are inconsistent.
MustBeRejected ==
    \/ \E i \in 1 .. 3 : Fields[i].k = "empty"
    \/ /\ \A i \in 1 .. 3 : Fields[i].k = "num"
       /\ \/ \E i \in 1 .. 3 : Fields[i].v < 0
          \/ v_pa_tvsh_var.v + tvsh_var.v - v_me_tvsh_var.v > 10
          \/ v_pa_tvsh_var.v + tvsh_var.v - v_me_tvsh_var.v < -10

\* ---- C17: a submission that validation rejects (incomplete, negative or
\* inconsistent amounts) is reported and mutates nothing: the transaction
\* list, the carry-forward store, the known counterparties, the data file,
\* the form's fields and selections and the id being edited are as before.
C17_RejectedSubmissionMutatesNothing ==
    [][(AddOrUpdateEntry /\ MustBeRejected)
       => (/\ msg' \in {"IncompleteInput", "NegativeAmount", "InconsistentAmounts"}
           /\ UNCHANGED <<transactions, carry_forward_data, known_counterparties,
                          data_file, v_pa_tvsh_var, tvsh_var, v_me_tvsh_var,
                          counterparty_var, company_var, year_var, month_var,
                          transaction_type_var, editing_id, live_labels>>)]_vars

\* While an entry is edited, its base was made negative and the update
\* submitted: the entry, the file and the form are as they were.
C17_Witness ==
    /\ msg = "NegativeAmount"
    /\ editing_id \in Ids(transactions)
    /\ v_pa_tvsh_var = Num(-1000) /\ tvsh_var.k = "num" /\ v_me_tvsh_var.k = "num"
    /\ data_file.exists /\ data_file.transactions = transactions
    /\ \A i \in DOMAIN transactions : transactions[i].base >= 0

\* The amount variable of the entry that holds the focus, if one does.
FocusVar(f) ==
    CASE f = "base" -> "v_pa_tvsh_var"
      [] f = "vat" -> "tvsh_var"
      [] f = "total" -> "v_me_tvsh_var"
      [] OTHER -> "none"

\* ---- C18: with the guard released, when an amount field is made empty or
\* negative, its two dependent fields are cleared if neither of them holds
\* the focus (so also when the edited field itself holds it) and are left as
\* they were if one of them does.
C18_FocusAwareClearing ==
    ~calculating =>
        \A name \in AmountVars, text \in {Empty, Num(-1000)}, f \in FocusStates :
            LET self == SetVar(SelfAt(f), name, text, 0)
                dependents == AmountVars \ {name}
            IN  IF FocusVar(f) \in dependents
                THEN \A d \in dependents : self[d] = SelfAt(f)[d]
                ELSE \A d \in dependents : self[d] = Empty

\* What the handlers do: the dependents are cleared only when no widget of
\* the application holds the focus.
C18_ClearedOnlyWithoutFocus ==
    ~calculating =>
        \A name \in AmountVars, text \in {Empty, Num(-1000)}, f \in FocusStates :
            LET self == SetVar(SelfAt(f), name, text, 0)
                dependents == AmountVars \ {name}
            IN  IF f = "none"
                THEN \A d \in dependents : self[d] = Empty
                ELSE \A d \in dependents : self[d] = SelfAt(f)[d]

\* The transaction list with one more transaction at its end.
OneMore == Append(transactions, StoredTransaction(clock, CurrentPeriod, "Sales"))

\* kept holds the transactions of trans whose id is not in ids, each once and
\* in the order they have in trans.
IsRestInOrder(kept, trans, ids) ==
    /\ Ids(kept) = Ids(trans) \ ids
    /\ Len(kept) = Cardinality(Ids(kept))
    /\ \A i, j \in DOMAIN kept :
           i < j => \E h, k \in DOMAIN trans : h < k /\ trans[h] = kept[i] /\ trans[k] = kept[j]
    /\ \A i \in DOMAIN kept : \E h \in DOMAIN trans : trans[h] = kept[i]

\* ---- C19: a successful add appends one transaction and keeps the others; a
\* successful update replaces the transaction with the edited id at its
\* position, keeps the length and every other transaction, and leaves edit
\* mode; a delete removes the transactions with the selected ids, whatever
\* the selection (also from a list one longer), and keeps the others in
\* their order.
C19_LifecycleFrame ==
    [][/\ (/\ AddOrUpdateEntry
           /\ _validate_inputs(v_pa_tvsh_var, tvsh_var, v_me_tvsh_var).status = "ok"
           /\ editing_id = 0)
          => (/\ Len(transactions') = Len(transactions) + 1
              /\ SubSeq(transactions', 1, Len(transactions)) = transactions
              /\ transactions'[Len(transactions')].id \notin Ids(transactions))
       /\ (/\ AddOrUpdateEntry
           /\ _validate_inputs(v_pa_tvsh_var, tvsh_var, v_me_tvsh_var).status = "ok"
           /\ editing_id \in Ids(transactions))
          => (/\ Len(transactions') = Len(transactions)
              /\ \A i \in DOMAIN transactions :
                     IF transactions[i].id = editing_id
                     THEN transactions'[i].id = editing_id
                     ELSE transactions'[i] = transactions[i]
              /\ editing_id' = 0)
       /\ DeleteSelectedEntry
          => \E ids \in SUBSET Ids(transactions) \ {{}} :
                 IsRestInOrder(transactions', transactions, ids)
       /\ \A ids \in SUBSET Ids(OneMore) \ {{}} :
              IsRestInOrder(Keep(OneMore, ids), OneMore, ids)]_vars

\* The first of two transactions was deleted; the second is kept, and saved.
C19_Witness ==
    /\ Len(transactions) = 1
    /\ transactions[1].id = 2
    /\ editing_id = 0
    /\ data_file.exists /\ data_file.transactions = transactions

\* The carry-forward entries of file are those of the store carry.
SameEntries(file, carry) ==
    \A company \in DOMAIN file.carry_forward \cup DOMAIN carry \cup CompanySet :
        LET stored == Get(file.carry_forward, company, NoEntries)
            kept == Get(carry, company, NoEntries)
        IN  /\ DOMAIN stored = DOMAIN kept
            /\ \A p \in DOMAIN kept : stored[p] = str(kept[p])

\* ---- C20: every successful add, update and delete, and the closing of the
\* window, leaves a data file whose transaction list, carry-forward entries
\* and counterparties are those in memory when the handler is done, so the
\* file is written after the handler's recalculation.
C20_SavedAfterMutation ==
    [][(\/ /\ AddOrUpdateEntry
           /\ _validate_inputs(v_pa_tvsh_var, tvsh_var, v_me_tvsh_var).status = "ok"
           /\ editing_id = 0 \/ editing_id \in Ids(transactions)
        \/ DeleteSelectedEntry
        \/ OnClosing)
       => (/\ data_file'.exists
           /\ data_file'.transactions = transactions'
           /\ SameEntries(data_file', carry_forward_data')
           /\ data_file'.counterparties = known_counterparties')]_vars

\* The window was closed after an Imports transaction of ACME had been added:
\* the file holds the transaction, the surplus of the period and ACME.
C20_Witness ==
    /\ ~running
    /\ data_file.exists
    /\ Len(transactions) >= 1 /\ data_file.transactions = transactions
    /\ data_file.counterparties = {"ACME"}
    /\ \E company \in DOMAIN data_file.carry_forward :
           /\ CurrentPeriod \in DOMAIN data_file.carry_forward[company]
           /\ data_file.carry_forward[company][CurrentPeriod]
                = str(carry_forward_data[company][CurrentPeriod])

\* The places of the JSON objects in a stored list.
ObjectPlaces(stored) == {i \in DOMAIN stored : DOMAIN stored[i] # DOMAIN NotADict}

\* loaded holds exactly the JSON objects of stored, in their order.
IsObjectsInOrder(loaded, stored) ==
    \E f \in [DOMAIN loaded -> ObjectPlaces(stored)] :
        /\ \A i, j \in DOMAIN loaded : i < j => f[i] < f[j]
        /\ \A k \in ObjectPlaces(stored) : \E i \in DOMAIN loaded : f[i] = k
        /\ \A i \in DOMAIN loaded : loaded[i] = stored[f[i]]

\* Sum of column col over the transactions at the indices in S, an amount
\* the transaction lacks taken as 0.
RECURSIVE SumOrZero(_, _)
SumOrZero(S, col) ==
    IF S = {} THEN 0
    ELSE LET i == CHOOSE j \in S : TRUE
             t == transactions[i]
         IN  (IF col \in DOMAIN t THEN t[col] ELSE 0) + SumOrZero(S \ {i}, col)

\* ---- C21: loading degrades per record.  The transaction list in memory is
\* the list of the JSON objects of the file, in the file's order, the entries
\* that are no objects left out; a transaction lacking base, vat or total is
\* in the list and adds 0 to the subtotal of that amount; a carry-forward
\* value of the file that cannot be parsed is not in the loaded store and a
\* recalculation reading its period takes 0 for it, and every other value of
\* the file is loaded.
C21_LoadDegradesPerRecord ==
    LET loaded == _load_data(data_file)
    IN  /\ IsObjectsInOrder(loaded.transactions, data_file.transactions)
        /\ transactions = loaded.transactions
        /\ \A company \in CompanySet, t_type \in TypeSet :
               LET shown == live_labels[company].types[t_type]
               IN  /\ shown.v_pa_tvsh = SumOrZero(Matching(company, t_type), "base")
                   /\ shown.tvsh = SumOrZero(Matching(company, t_type), "vat")
                   /\ shown.v_me_tvsh = SumOrZero(Matching(company, t_type), "total")
        /\ \A company \in DOMAIN data_file.carry_forward :
               \A p \in DOMAIN data_file.carry_forward[company] :
                   LET surplus_str == data_file.carry_forward[company][p]
                       months == Get(loaded.carry_forward_data, company, NoEntries)
                   IN  IF surplus_str = Unparsable
                       THEN /\ p \notin DOMAIN months
                            /\ \A year \in Years, month_name \in MonthChoices :
                                   get_prev_month_year_str(year, month_name) = p
                                   => _update_live_data_display(
                                          loaded.transactions, loaded.carry_forward_data,
                                          year, month_name).labels[company].prev_surplus = 0
                       ELSE p \in DOMAIN months /\ str(months[p]) = surplus_str

\* The program was started in December of the first year on a file whose
\* list holds an entry that is no object and an Imports transaction of that
\* December without base, and whose carry-forward values are an unparsable
\* one for December and -0.18 for January: the transaction is the only one in
\* memory, its base subtotal is 0 and its VAT 0.18, the January value is in
\* the store, and another company has been selected since.
C21_Witness ==
    /\ Len(data_file.transactions) = 2
    /\ data_file.transactions[1] = NotADict
    /\ "base" \notin DOMAIN data_file.transactions[2]
    /\ DOMAIN data_file.carry_forward = {COMPANIES[1]}
    /\ DOMAIN data_file.carry_forward[COMPANIES[1]] = StoredPeriods
    /\ data_file.carry_forward[COMPANIES[1]][FirstYear * 100 + 12] = Unparsable
    /\ data_file.carry_forward[COMPANIES[1]][(FirstYear + 1) * 100 + 1] = str(-18)
    /\ Len(transactions) = 1
    /\ transactions[1].month_year = CurrentPeriod
    /\ transactions[1].transaction_type = "Imports"
    /\ live_labels[COMPANIES[1]].types["Imports"].v_pa_tvsh = 0
    /\ live_labels[COMPANIES[1]].types["Imports"].tvsh = 18
    /\ Get(carry_forward_data[COMPANIES[1]], (FirstYear + 1) * 100 + 1, 0) = -18
    /\ company_var = COMPANIES[2]

\* A step of a handler that runs one recalculation, for the selection the
\* step leaves.
OneRecompute ==
    SelectCompany \/ SelectYear \/ SelectMonth \/ AddOrUpdateEntry \/ DeleteSelectedEntry

\* The carry-forward entry of company at period p is the same before and
\* after the step.
EntryUnchanged(company, p) ==
    LET before == Get(carry_forward_data, company, NoEntries)
        after == Get(carry_forward_data', company, NoEntries)
    IN  /\ (p \in DOMAIN before) <=> (p \in DOMAIN after)
        /\ p \in DOMAIN before => after[p] = before[p]

\* The periods with an entry before or after the step.
EntryPeriods ==
    UNION {DOMAIN carry_forward_data[c] : c \in DOMAIN carry_forward_data}
    \cup UNION {DOMAIN carry_forward_data'[c] : c \in DOMAIN carry_forward_data'}

\* ---- C22: a recalculation changes the carry-forward store at most at the
\* entry of the selected company and the selected period: the entries of
\* every other period and of every other company are as before, and a
\* selection event, which only recalculates, leaves the transaction list as
\* it was.
C22_RecomputeFrame ==
    [][OneRecompute
       => (/\ \A company \in DOMAIN carry_forward_data \cup CompanySet, p \in EntryPeriods :
                  \/ company = company_var' /\ p = CurrentPeriod'
                  \/ EntryUnchanged(company, p)
           /\ (SelectCompany \/ SelectYear \/ SelectMonth)
                  => transactions' = transactions)]_vars

\* What the code keeps of C22: a recalculation changes entries of the
\* selected period only, of any company of COMPANIES, and a selection event
\* leaves the transaction list as it was.
C22_OnlySelectedPeriod ==
    [][OneRecompute
       => (/\ \A company \in DOMAIN carry_forward_data \cup CompanySet, p \in EntryPeriods :
                  p = CurrentPeriod' \/ EntryUnchanged(company, p)
           /\ (SelectCompany \/ SelectYear \/ SelectMonth)
                  => transactions' = transactions)]_vars

\* ---- C23: between any two UI events the derivation flag is released:
\* _calculating is False in every state the event loop waits in, whatever
\* text was put in an amount field and after every add, edit-populate, cancel
\* and clear.
C23_GuardReleased == ~calculating

\* What the code keeps of C23: the flag is left set only by an edit that put
\* a text Decimal() reads as NaN in an amount field, whose comparison with 0
\* raises before the flag is reset; a successful add, an edit-populate and a
\* cancel leave it released.
C23_SetOnlyByNaN ==
    [][/\ (calculating' /\ ~calculating)
            => (/\ EditBase \/ EditVat \/ EditTotal
                /\ NaN \in {v_pa_tvsh_var', tvsh_var', v_me_tvsh_var'}
                /\ msg' = "InvalidOperation")
       /\ ((AddOrUpdateEntry /\ msg' = "") \/ EditEntry \/ CancelEdit) => ~calculating']_vars

====
